---- MODULE Spec2Model ----
(***************************************************************************)
(* State-machine model of the apply_gcp tool (tools/apply_gcp.cxx):        *)
(* one run of main/maptk_main, from argument parsing to the exit status.  *)
(* File names are sequences of one-character strings so that stem         *)
(* extraction and lexicographic sorting are computed, not assumed.         *)
(***************************************************************************)
EXTENDS Integers, Sequences, FiniteSets, TLC

\* ------------------------------------------------------------------ bounds
\* longest image list read from image_list_file
MaxImages == 2
\* most candidate camera files (directory entries or list lines)
MaxFiles == 2
\* most reference landmarks / reference tracks load_reference_file returns
MaxRef == 1

\* ------------------------------------------------------------- file names
\* Character codes (ASCII) used by std::string comparison.
CharCode(c) ==
  CASE c = "." -> 46
    [] c = "/" -> 47
    [] c = "a" -> 97
    [] c = "b" -> 98
    [] c = "d" -> 100
    [] c = "f" -> 102
    [] c = "g" -> 103
    [] c = "j" -> 106
    [] c = "k" -> 107
    [] c = "p" -> 112
    [] c = "z" -> 122

\* std::string operator< : lexicographic order on character codes.
RECURSIVE StrLess(_, _)
StrLess(a, b) ==
  IF a = <<>> THEN b # <<>>
  ELSE IF b = <<>> THEN FALSE
  ELSE IF CharCode(Head(a)) < CharCode(Head(b)) THEN TRUE
  ELSE IF CharCode(Head(a)) > CharCode(Head(b)) THEN FALSE
  ELSE StrLess(Tail(a), Tail(b))

\* index of the last occurrence of character c in s, 0 when absent
\* (std::string::rfind)
RECURSIVE RFind(_, _)
RFind(s, c) ==
  IF s = <<>> THEN 0
  ELSE IF s[Len(s)] = c THEN Len(s)
  ELSE RFind(SubSeq(s, 1, Len(s) - 1), c)

\* SystemTools::GetFilenameName: the part after the last '/'.
GetFilenameName(p) == SubSeq(p, RFind(p, "/") + 1, Len(p))

\* SystemTools::GetFilenameWithoutLastExtension: the file name with
\* everything from its last '.' on removed.
GetFilenameWithoutLastExtension(p) ==
  LET name == GetFilenameName(p)
      dot  == RFind(name, ".")
  IN  IF dot = 0 THEN name ELSE SubSeq(name, 1, dot - 1)

\* The image paths an image list line can hold: two of them share the
\* stem "f" (different directory, different extension).
ImagePaths ==
  { <<"a", "/", "f", ".", "p">>, <<"f", ".", "j">>, <<"g", ".", "p">> }

\* The directory given as input_krtd_files and the entries it can hold:
\* two entries share the stem "f", one matches no image ("z").
KrtdDir == <<"d">>
KrtdNames ==
  { <<"f", ".", "k">>, <<"f", ".", "b">>, <<"g", ".", "k">>, <<"z", ".", "k">> }

\* vdir + '/' + dir.GetFile(i)
DirPath(vdir, name) == vdir \o <<"/">> \o name

CameraPaths == { DirPath(KrtdDir, n) : n \in KrtdNames }

\* ---------------------------------------------------------------- helpers
\* all sequences over S of length at most n
SeqsUpTo(S, n) == UNION { [1..k -> S] : k \in 0..n }

\* std::map operator[] assignment: m[k] = v
MapPut(m, k, v) == [x \in (DOMAIN m) \cup {k} |-> IF x = k THEN v ELSE m[x]]

\* the empty std::map
EmptyMap == [x \in {} |-> 0]

\* number of occurrences of e in the sequence s
RECURSIVE Count(_, _)
Count(s, e) ==
  IF s = <<>> THEN 0
  ELSE (IF Head(s) = e THEN 1 ELSE 0) + Count(Tail(s), e)

Range(s) == { s[i] : i \in DOMAIN s }

\* ------------------------------------------------------------- FrameIndex
\* BuildIndex with std::map::insert in place of operator[]: an earlier
\* entry of the same stem is kept.
RECURSIVE BuildIndex_KeepFirst(_, _, _)
BuildIndex_KeepFirst(files, f2f, ff) ==
  IF files = <<>> THEN [filename2frame |-> f2f, frame2filename |-> ff]
  ELSE LET i_file_stem == GetFilenameWithoutLastExtension(Head(files))
       IN  BuildIndex_KeepFirst(
             Tail(files),
             IF i_file_stem \in DOMAIN f2f THEN f2f
             ELSE MapPut(f2f, i_file_stem, Len(ff)),
             Append(ff, i_file_stem))

\* Lines 449-456: one pass over image_files; the frame id of a file is the
\* size of frame2filename before its stem is pushed, and filename2frame[stem]
\* is assigned (overwriting an earlier entry of the same stem).
RECURSIVE BuildIndex(_, _, _)
BuildIndex(files, f2f, ff) ==
  IF files = <<>> THEN [filename2frame |-> f2f, frame2filename |-> ff]
  ELSE LET i_file_stem == GetFilenameWithoutLastExtension(Head(files))
       IN  BuildIndex(Tail(files),
                      MapPut(f2f, i_file_stem, Len(ff)),
                      Append(ff, i_file_stem))

\* frame2filename[id] of the code (a 0-based std::vector)
FrameName(ff, id) == ff[id + 1]

\* ----------------------------------------------------------- CameraLoader
\* std::sort of the directory's files: the ascending sequence of a set of
\* distinct paths.
RECURSIVE SortedSeq(_)
SortedSeq(S) ==
  IF S = {} THEN <<>>
  ELSE LET least == CHOOSE x \in S : \A y \in S \ {x} : StrLess(x, y)
       IN  <<least>> \o SortedSeq(S \ {least})

\* files_in_dir whose loop starts at the second entry.
files_in_dir_SkipFirst(vdir, entries) ==
  LET all == SortedSeq({ DirPath(vdir, e) : e \in entries })
  IN  IF all = <<>> THEN all ELSE Tail(all)

\* files_in_dir: every entry of the directory, prefixed, sorted.
files_in_dir(vdir, entries) == SortedSeq({ DirPath(vdir, e) : e \in entries })

\* Lines 290-301: for each candidate, look its stem up in filename2frame and,
\* when found, bind the camera read from that file to the frame id (a later
\* candidate of the same frame replaces the earlier one).
RECURSIVE MatchCameras(_, _, _)
MatchCameras(files, f2f, krtd_cams) ==
  IF files = <<>> THEN krtd_cams
  ELSE LET krtd_file_stem == GetFilenameWithoutLastExtension(Head(files))
       IN  IF krtd_file_stem \in DOMAIN f2f
           THEN MatchCameras(Tail(files), f2f,
                             MapPut(krtd_cams, f2f[krtd_file_stem], Head(files)))
           ELSE MatchCameras(Tail(files), f2f, krtd_cams)

\* ------------------------------------------------------------------ state
VARIABLES
  opt_help,            \* --help given
  opt_out_config,      \* -o/--output-config given (opt_out_config non-empty)
  config,              \* the merged configuration block (record of Configs)
  valid_config,        \* result of check_config
  st_estimator,        \* TRUE when the similarity estimator pointer is non-null
  can_tfm_estimator,   \* TRUE when the canonical estimator pointer is non-null
  image_files,         \* lines of the image list file
  frame2filename,      \* frame id -> stem (sequence, id = position - 1)
  filename2frame,      \* stem -> frame id
  local_cs,            \* the local coordinate system: its UTM origin zone
  geo_origin_loaded_from_file,
  krtd_files,          \* candidate camera files of load_input_cameras_krtd
  input_cameras,       \* frame id -> camera file the camera was read from
  cam_map,             \* working camera map: [null, cams, xf]
  lm_map,              \* working landmark map: [null, src, xf]
  reference_landmarks, \* size of the reference landmark map
  reference_tracks,    \* size of the reference track set
  sim_transform,       \* the transform resolved by lines 574-610
  out_ply,             \* what write_ply_file was handed
  out_pos,             \* what the POS writer was handed
  out_krtd,            \* what the KRTD writer was handed
  log,                 \* collaborator calls and file accesses, in order
  pc,                  \* position in maptk_main
  exit_code,           \* process exit status (NoExit while running)
  failure,             \* why the run ended ("" on success or while running)
  cmp,                 \* directory-mode / list-mode comparison state
  trip                 \* an origin persisted by one run and loaded by the next

optVars  == <<opt_help, opt_out_config>>
cfgVars  == <<config, valid_config, st_estimator, can_tfm_estimator>>
idxVars  == <<image_files, frame2filename, filename2frame>>
csVars   == <<local_cs, geo_origin_loaded_from_file>>
camVars  == <<krtd_files, input_cameras, cam_map>>
refVars  == <<reference_landmarks, reference_tracks>>
outVars  == <<out_ply, out_pos, out_krtd>>
vars == <<optVars, cfgVars, idxVars, csVars, camVars, lm_map, refVars,
          sim_transform, outVars, log, pc, exit_code, failure, cmp, trip>>

EXIT_SUCCESS == 0
EXIT_FAILURE == 1
\* exit_code while the process is running
NoExit == 0 - 1
\* status of a process killed by SIGSEGV (128 + 11)
Crashed == 128 + 11

\* UTM zones a geodetic origin can fall in (two of the 60)
Zones == {17, 31}

\* Every configuration the tool can be started with, by what the paths
\* point at.  Lines 79-149 give the keys; 161-207 what is checked.
Configs ==
  [ image_list_file : {"missing", "unreadable", "readable"},
    input_krtd_files : {"blank", "missing", "unreadable", "dir", "list"},
    input_reference_points_file : {"blank", "missing", "present"},
    geo_origin_file : {"blank", "absent", "present", "garbage"},
    algos : {"ok", "bad"},          \* triangulator and geo_mapper checks
    st_type : {"", "valid", "invalid"},
    can_type : {"", "valid", "invalid"} ]

\* ST::FileExists on the configured path
FileExists(kind) == kind \notin {"blank", "missing", "absent"}

\* check_config, lines 153-213
check_config(c) ==
  /\ c.image_list_file # "missing"
  /\ (c.input_krtd_files # "blank" => FileExists(c.input_krtd_files))
  /\ (c.input_reference_points_file # "blank"
        => FileExists(c.input_reference_points_file))
  /\ c.algos = "ok"
  /\ (c.st_type # "" => c.st_type = "valid")
  /\ (c.can_type # "" => c.can_type = "valid")

NullCams == [null |-> TRUE, cams |-> EmptyMap, xf |-> <<>>]
NullLm   == [null |-> TRUE, src |-> "", xf |-> <<>>]
NoConfig == [ image_list_file |-> "missing", input_krtd_files |-> "blank",
              input_reference_points_file |-> "blank",
              geo_origin_file |-> "blank", algos |-> "bad",
              st_type |-> "", can_type |-> "" ]
NoCmp == [stage |-> "off", entries |-> {}, lines |-> <<>>,
          dir_cams |-> EmptyMap, list_cams |-> EmptyMap]

\* no coordinate system held or loaded
NoCs == [utm_origin_zone |-> 0 - 1, utm_origin |-> <<>>, is_north_hemi |-> TRUE]

NoTrip == [stage |-> "off", geo |-> <<>>, held |-> NoCs, file |-> <<>>,
           loaded |-> NoCs]

\* State at entry to main: only the command line is known.
Init ==
  /\ opt_help \in BOOLEAN
  /\ opt_out_config \in BOOLEAN
  /\ config = NoConfig
  /\ valid_config = FALSE
  /\ st_estimator = FALSE
  /\ can_tfm_estimator = FALSE
  /\ image_files = <<>>
  /\ frame2filename = <<>>
  /\ filename2frame = EmptyMap
  /\ local_cs = [utm_origin_zone |-> 0 - 1]
  /\ geo_origin_loaded_from_file = FALSE
  /\ krtd_files = <<>>
  /\ input_cameras = EmptyMap
  /\ cam_map = NullCams
  /\ lm_map = NullLm
  /\ reference_landmarks = 0
  /\ reference_tracks = 0
  /\ sim_transform = "identity"
  /\ out_ply = [written |-> FALSE, lm |-> NullLm]
  /\ out_pos = [written |-> FALSE, cam |-> NullCams, names |-> {}]
  /\ out_krtd = [written |-> FALSE, cam |-> NullCams, names |-> {}]
  /\ log = <<>>
  /\ pc = "start"
  /\ exit_code = NoExit
  /\ failure = ""
  /\ cmp = NoCmp
  /\ trip = NoTrip

\* return from maptk_main / a catch block of main, lines 675-692
Exit(code, why) ==
  /\ pc' = "done"
  /\ exit_code' = code
  /\ failure' = why

Goto(next) ==
  /\ pc' = next
  /\ UNCHANGED <<exit_code, failure>>

\* A catch block that returns EXIT_SUCCESS.
Throw_ReturnsSuccess == Exit(EXIT_SUCCESS, "exception")

\* An exception raised while the transform is resolved or applied is
\* swallowed and the run goes on to the writers.
Throw_FallsThrough ==
  IF pc \in {"resolve", "apply"}
  THEN Goto("write_ply")
  ELSE Exit(EXIT_FAILURE, "exception")

\* an exception thrown by a collaborator, caught by main (lines 681-692)
Throw == Exit(EXIT_FAILURE, "exception")

\* Lines 346-359: parse the command line; --help prints usage.
ParseArgs ==
  /\ pc = "start"
  /\ \E parsed \in BOOLEAN :
       IF ~parsed THEN Exit(EXIT_FAILURE, "args")
       ELSE IF opt_help THEN Exit(EXIT_SUCCESS, "")
       ELSE Goto("configure")
  /\ UNCHANGED <<optVars, cfgVars, idxVars, csVars, camVars, lm_map, refVars,
                 sim_transform, outVars, log, cmp, trip>>

\* Lines 361-424: read and merge the configuration, instantiate the
\* algorithms, check the configuration, and either dump it (-o) or go on.
Configure ==
  /\ pc = "configure"
  /\ \E c \in Configs, outcome \in {"read_throws", "write_throws", "ok"} :
       IF outcome = "read_throws"       \* read_config_file, line 385
       THEN /\ log' = Append(log, "read_config")
            /\ Throw
            /\ UNCHANGED cfgVars
       ELSE /\ config' = c
            /\ st_estimator' = (c.st_type = "valid")
            /\ can_tfm_estimator' = (c.can_type = "valid")
            /\ valid_config' = check_config(c)
            /\ IF opt_out_config
               THEN /\ log' = log \o <<"check_config", "write_config">>
                    /\ IF outcome = "write_throws" THEN Throw
                       ELSE Exit(EXIT_SUCCESS, "")
               ELSE /\ outcome = "ok"
                    /\ log' = Append(log, "check_config")
                    /\ IF ~check_config(c) THEN Exit(EXIT_FAILURE, "config")
                       ELSE Goto("image_list")
  /\ UNCHANGED <<optVars, idxVars, csVars, camVars, lm_map, refVars,
                 sim_transform, outVars, cmp, trip>>

\* Lines 432-456: read the image list and build the frame index.
ReadImageList ==
  /\ pc = "image_list"
  /\ IF config.image_list_file = "unreadable"
     THEN /\ Exit(EXIT_FAILURE, "image_list")
          /\ UNCHANGED <<idxVars, log>>
     ELSE \E files \in SeqsUpTo(ImagePaths, MaxImages) :
            LET idx == BuildIndex(files, EmptyMap, <<>>)
            IN  /\ image_files' = files
                /\ frame2filename' = idx.frame2filename
                /\ filename2frame' = idx.filename2frame
                /\ log' = Append(log, "read_image_list")
                /\ Goto("origin")
  /\ UNCHANGED <<optVars, cfgVars, csVars, camVars, lm_map, refVars,
                 sim_transform, outVars, cmp, trip>>

\* Lines 463-467: a geo-origin path is configured and the file exists.
OriginFileExists ==
  config.geo_origin_file # "blank" /\ FileExists(config.geo_origin_file)

\* Lines 461-482: when the geo-origin file exists, read lat/lon/alt from
\* it and set the UTM origin.  An unparseable file leaves lat/lon/alt
\* indeterminate, so the zone obtained is any zone (or the projection throws).
LoadOrigin ==
  /\ pc = "origin"
  /\ IF OriginFileExists
     THEN \E zone \in Zones, threw \in BOOLEAN :
            /\ log' = Append(log, "load_origin")
            /\ IF threw
               THEN Throw /\ UNCHANGED csVars
               ELSE /\ local_cs' = [local_cs EXCEPT !.utm_origin_zone = zone]
                    /\ geo_origin_loaded_from_file' = TRUE
                    /\ Goto("cameras")
     ELSE /\ Goto("cameras")
          /\ UNCHANGED <<csVars, log>>
  /\ UNCHANGED <<optVars, cfgVars, idxVars, camVars, lm_map, refVars,
                 sim_transform, outVars, cmp, trip>>

\* resolve_files, lines 246-266: the candidates of a directory (sorted) or
\* of a list file (line order); not ok when the list file cannot be opened,
\* which is also what the blank path "" gives (not a directory, not openable).
resolve_files(kind) ==
  IF kind = "dir"
  THEN { [ok |-> TRUE, files |-> files_in_dir(KrtdDir, E)] :
           E \in { S \in SUBSET KrtdNames : Cardinality(S) <= MaxFiles } }
  ELSE IF kind = "list"
  THEN { [ok |-> TRUE, files |-> l] : l \in SeqsUpTo(CameraPaths, MaxFiles) }
  ELSE { [ok |-> FALSE, files |-> <<>>] }

\* The sparse-coverage test off by one.
SparseCameras_OffByOne(f2f, krtd_cams) ==
  Cardinality(DOMAIN f2f) > Cardinality(DOMAIN krtd_cams) + 1

\* Line 315: the sparse-coverage test.
SparseCameras(f2f, krtd_cams) ==
  Cardinality(DOMAIN f2f) # Cardinality(DOMAIN krtd_cams)

\* Line 305 never finding the loaded map empty.
NoCamerasLoaded_Never(krtd_cams) == FALSE

\* Line 305: no camera file matched an image (krtd_cams.empty()).
NoCamerasLoaded(krtd_cams) == DOMAIN krtd_cams = {}

\* Lines 488-493 with load_input_cameras_krtd, lines 271-324.
LoadCameras ==
  /\ pc = "cameras"
  /\ \E r \in resolve_files(config.input_krtd_files), threw \in BOOLEAN :
       LET krtd_cams == MatchCameras(r.files, filename2frame, EmptyMap)
       IN  /\ krtd_files' = r.files
           /\ IF ~r.ok
              THEN /\ Exit(EXIT_FAILURE, "krtd_list")
                   /\ log' = Append(log, "load_cameras")
                   /\ UNCHANGED input_cameras
              ELSE IF NoCamerasLoaded(krtd_cams)
              THEN /\ Exit(EXIT_FAILURE, "no_cameras")
                   /\ log' = Append(log, "load_cameras")
                   /\ UNCHANGED input_cameras
              ELSE IF threw          \* read_krtd_file of a matched file
              THEN /\ Throw
                   /\ log' = Append(log, "load_cameras")
                   /\ UNCHANGED input_cameras
              ELSE /\ input_cameras' = krtd_cams
                   /\ log' = IF SparseCameras(filename2frame, krtd_cams)
                             THEN log \o <<"load_cameras", "warn_sparse">>
                             ELSE Append(log, "load_cameras")
                   /\ Goto("landmarks")
  /\ UNCHANGED <<optVars, cfgVars, idxVars, csVars, cam_map, lm_map, refVars,
                 sim_transform, outVars, cmp, trip>>

\* Lines 495-500: input_ply_file always has a value (default_config sets
\* it), so the landmark file is always read.
LoadLandmarks ==
  /\ pc = "landmarks"
  /\ \E threw \in BOOLEAN :
       /\ log' = Append(log, "read_ply")
       /\ IF threw THEN Throw /\ UNCHANGED lm_map
          ELSE /\ lm_map' = [null |-> FALSE, src |-> "input_ply", xf |-> <<>>]
               /\ Goto("copy")
  /\ krtd_files' = <<>>      \* the loader's local vector is gone
  /\ UNCHANGED <<optVars, cfgVars, idxVars, csVars, input_cameras, cam_map,
                 refVars, sim_transform, outVars, cmp, trip>>

\* Lines 503-517: clone the input cameras into the working camera map;
\* cam_map stays null when there are none.
CopyCameras ==
  /\ pc = "copy"
  /\ cam_map' = IF DOMAIN input_cameras # {}
                THEN [null |-> FALSE, cams |-> input_cameras, xf |-> <<>>]
                ELSE NullCams
  /\ Goto("reference")
  /\ UNCHANGED <<optVars, cfgVars, idxVars, csVars, krtd_files, input_cameras,
                 lm_map, refVars, sim_transform, outVars, log, cmp, trip>>

\* load_reference_file (maptk/geo_reference_points_io): the landmarks and
\* tracks of the reference file; a file with at least one point sets the
\* UTM origin zone of local_cs.  Tracks belong to landmarks.
load_reference_file(zone) ==
  { r \in [lms : 0..MaxRef, tracks : 0..MaxRef, zone : Zones \cup {zone}] :
      /\ r.tracks <= r.lms
      /\ (r.lms = 0 => r.zone = zone)
      /\ (r.lms > 0 => r.zone \in Zones) }

\* Lines 519-528.
LoadReference ==
  /\ pc = "reference"
  /\ IF config.input_reference_points_file # "blank"
     THEN \E r \in load_reference_file(local_cs.utm_origin_zone),
             threw \in BOOLEAN :
            /\ log' = Append(log, "load_reference")
            /\ IF threw
               THEN Throw /\ UNCHANGED <<refVars, local_cs>>
               ELSE /\ reference_landmarks' = r.lms
                    /\ reference_tracks' = r.tracks
                    /\ local_cs' = [local_cs EXCEPT !.utm_origin_zone = r.zone]
                    /\ Goto("persist")
     ELSE /\ Goto("persist")
          /\ UNCHANGED <<refVars, local_cs, log>>
  /\ UNCHANGED <<optVars, cfgVars, idxVars, geo_origin_loaded_from_file,
                 camVars, lm_map, sim_transform, outVars, cmp, trip>>

\* The persist test without the loaded-from-file flag.
OriginIsNew_IgnoreLoaded == local_cs.utm_origin_zone >= 0

\* The persist test without the zone test.
OriginIsNew_IgnoreZone == ~geo_origin_loaded_from_file

\* Lines 531-532: an origin was computed and not loaded from the file.
OriginIsNew ==
  local_cs.utm_origin_zone >= 0 /\ ~geo_origin_loaded_from_file

\* Lines 530-555: convert the new origin back to lat/lon and, when a
\* geo-origin path is configured and the file can be opened for writing,
\* write it.  A failed open is skipped silently (line 545).
PersistOrigin ==
  /\ pc = "persist"
  /\ IF OriginIsNew
     THEN \E threw \in BOOLEAN, opened \in BOOLEAN :
            IF threw            \* utm_to_latlon
            THEN Throw /\ log' = Append(log, "utm_to_latlon")
            ELSE /\ log' = IF config.geo_origin_file = "blank"
                           THEN Append(log, "utm_to_latlon")
                           ELSE IF opened
                           THEN log \o <<"utm_to_latlon", "write_origin">>
                           ELSE log \o <<"utm_to_latlon", "open_origin_failed">>
                 /\ Goto("resolve")
     ELSE /\ Goto("resolve")
          /\ log' = log
  /\ UNCHANGED <<optVars, cfgVars, idxVars, csVars, camVars, lm_map, refVars,
                 sim_transform, outVars, cmp, trip>>

\* Line 568 testing the canonical estimator only.
EstimatorConfigured_CanOnly == can_tfm_estimator

\* Line 568 with the test dropped.
EstimatorConfigured_Always == TRUE

\* Line 568: an estimator is configured.
EstimatorConfigured == st_estimator \/ can_tfm_estimator

\* Line 578 giving way to a configured canonical estimator.
UseReferencePath_CanonicalFirst ==
  ~can_tfm_estimator /\ reference_landmarks > 0 /\ reference_tracks > 0

\* Line 578: reference data is available.
UseReferencePath == reference_landmarks > 0 /\ reference_tracks > 0

\* Line 606: the canonical fallback.
UseCanonicalPath == can_tfm_estimator

\* Lines 616-617: a map with one more transform applied to it.
Applied(m, t) == [m EXCEPT !.xf = Append(@, t)]

\* Lines 568-610: resolve the similarity transform.  Calling
\* estimate_transform through a null st_estimator is undefined: the process
\* is killed, or the call goes on with an indeterminate result.
ResolveTransform ==
  /\ pc = "resolve"
  /\ IF ~EstimatorConfigured
     THEN /\ Goto("write_ply")
          /\ UNCHANGED <<sim_transform, log>>
     ELSE IF UseReferencePath
     THEN \E outcome \in {"tri_throws", "rmse_throws", "st_throws", "ok",
                          "crash"} :
            CASE outcome = "tri_throws" ->
                   /\ log' = Append(log, "triangulate")
                   /\ Throw /\ UNCHANGED sim_transform
              [] outcome = "rmse_throws" ->
                   /\ log' = log \o <<"triangulate", "rmse">>
                   /\ Throw /\ UNCHANGED sim_transform
              [] outcome = "st_throws" ->
                   /\ st_estimator
                   /\ log' = log \o <<"triangulate", "rmse", "st_estimate">>
                   /\ Throw /\ UNCHANGED sim_transform
              [] outcome = "ok" ->
                   /\ log' = log \o <<"triangulate", "rmse", "st_estimate">>
                   /\ sim_transform' = IF st_estimator THEN "similarity"
                                       ELSE "indeterminate"
                   /\ Goto("apply")
              [] outcome = "crash" ->
                   /\ ~st_estimator
                   /\ log' = log \o <<"triangulate", "rmse", "st_estimate">>
                   /\ Exit(Crashed, "crash") /\ UNCHANGED sim_transform
     ELSE IF UseCanonicalPath
     THEN \E threw \in BOOLEAN :
            /\ log' = Append(log, "can_estimate")
            /\ IF threw THEN Throw /\ UNCHANGED sim_transform
               ELSE sim_transform' = "canonical" /\ Goto("apply")
     ELSE /\ Goto("apply")
          /\ UNCHANGED <<sim_transform, log>>
  /\ UNCHANGED <<optVars, cfgVars, idxVars, csVars, camVars, lm_map, refVars,
                 outVars, cmp, trip>>

\* Line 616: the camera map after transform(cam_map, sim_transform).
TransformCameras == Applied(cam_map, sim_transform)

\* Line 617 leaving the landmarks as they were read.
TransformLandmarks_Skipped == lm_map

\* Line 617: the landmark map after transform(lm_map, sim_transform).
TransformLandmarks == Applied(lm_map, sim_transform)

\* Lines 612-617: apply the transform to the cameras, then to the landmarks.
ApplyTransform ==
  /\ pc = "apply"
  /\ \E outcome \in {"cams_throw", "lms_throw", "ok"} :
       CASE outcome = "cams_throw" ->
              /\ log' = Append(log, "transform_cameras")
              /\ Throw /\ UNCHANGED <<cam_map, lm_map>>
         [] outcome = "lms_throw" ->
              /\ log' = log \o <<"transform_cameras", "transform_landmarks">>
              /\ cam_map' = TransformCameras
              /\ Throw /\ UNCHANGED lm_map
         [] outcome = "ok" ->
              /\ log' = log \o <<"transform_cameras", "transform_landmarks">>
              /\ cam_map' = TransformCameras
              /\ lm_map' = TransformLandmarks
              /\ Goto("write_ply")
  /\ UNCHANGED <<optVars, cfgVars, idxVars, csVars, krtd_files, input_cameras,
                 refVars, sim_transform, outVars, cmp, trip>>

\* Lines 623-628: output_ply_file always has a value.
WritePly ==
  /\ pc = "write_ply"
  /\ \E threw \in BOOLEAN :
       /\ log' = Append(log, "write_ply")
       /\ IF threw THEN Throw /\ UNCHANGED out_ply
          ELSE /\ out_ply' = [written |-> TRUE, lm |-> lm_map]
               /\ Goto("write_pos")
  /\ UNCHANGED <<optVars, cfgVars, idxVars, csVars, camVars, lm_map, refVars,
                 sim_transform, out_pos, out_krtd, cmp, trip>>

\* the output file stems of a camera map: frame2filename[p.first]
OutputNames(cm) == { FrameName(frame2filename, k) : k \in DOMAIN cm.cams }

\* Lines 633-652: one POS file per camera; a writer that throws leaves the
\* files written before it.
WritePos ==
  /\ pc = "write_pos"
  /\ \E threw \in BOOLEAN :
       /\ log' = Append(log, "write_pos")
       /\ IF threw
          THEN /\ \E done \in SUBSET OutputNames(cam_map) :
                    /\ done # OutputNames(cam_map)
                    /\ out_pos' = [written |-> done # {}, cam |-> cam_map,
                                   names |-> done]
               /\ Throw
          ELSE /\ out_pos' = [written |-> TRUE, cam |-> cam_map,
                              names |-> OutputNames(cam_map)]
               /\ Goto("write_krtd")
  /\ UNCHANGED <<optVars, cfgVars, idxVars, csVars, camVars, lm_map, refVars,
                 sim_transform, out_ply, out_krtd, cmp, trip>>

\* Lines 657-671: one KRTD file per camera, then EXIT_SUCCESS.
WriteKrtd ==
  /\ pc = "write_krtd"
  /\ \E threw \in BOOLEAN :
       /\ log' = Append(log, "write_krtd")
       /\ IF threw
          THEN /\ \E done \in SUBSET OutputNames(cam_map) :
                    /\ done # OutputNames(cam_map)
                    /\ out_krtd' = [written |-> done # {}, cam |-> cam_map,
                                    names |-> done]
               /\ Throw
          ELSE /\ out_krtd' = [written |-> TRUE, cam |-> cam_map,
                               names |-> OutputNames(cam_map)]
               /\ Exit(EXIT_SUCCESS, "")
  /\ UNCHANGED <<optVars, cfgVars, idxVars, csVars, camVars, lm_map, refVars,
                 sim_transform, out_ply, out_pos, cmp, trip>>

\* ------------------------------------------- directory mode vs list mode
\* The same camera files given once as a directory and once as a list file
\* (its lines in any order), loaded against one frame index.
LineOrders(S) ==
  { l \in [1..Cardinality(S) -> S] : Range(l) = S }

CmpInit ==
  /\ opt_help = FALSE
  /\ opt_out_config = FALSE
  /\ config = NoConfig
  /\ valid_config = FALSE
  /\ st_estimator = FALSE
  /\ can_tfm_estimator = FALSE
  /\ image_files = <<>>
  /\ frame2filename = <<>>
  /\ filename2frame = EmptyMap
  /\ local_cs = [utm_origin_zone |-> 0 - 1]
  /\ geo_origin_loaded_from_file = FALSE
  /\ krtd_files = <<>>
  /\ input_cameras = EmptyMap
  /\ cam_map = NullCams
  /\ lm_map = NullLm
  /\ reference_landmarks = 0
  /\ reference_tracks = 0
  /\ sim_transform = "identity"
  /\ out_ply = [written |-> FALSE, lm |-> NullLm]
  /\ out_pos = [written |-> FALSE, cam |-> NullCams, names |-> {}]
  /\ out_krtd = [written |-> FALSE, cam |-> NullCams, names |-> {}]
  /\ log = <<>>
  /\ pc = "compare"
  /\ exit_code = NoExit
  /\ failure = ""
  /\ \E E \in { S \in SUBSET KrtdNames : Cardinality(S) <= MaxFiles } :
       \E l \in LineOrders({ DirPath(KrtdDir, e) : e \in E }) :
         cmp = [stage |-> "index", entries |-> E, lines |-> l,
                dir_cams |-> EmptyMap, list_cams |-> EmptyMap]
  /\ trip = NoTrip

\* Lines 449-456 on any image list.
CmpBuildIndex ==
  /\ cmp.stage = "index"
  /\ \E files \in SeqsUpTo(ImagePaths, MaxImages) :
       LET idx == BuildIndex(files, EmptyMap, <<>>)
       IN  /\ image_files' = files
           /\ frame2filename' = idx.frame2filename
           /\ filename2frame' = idx.filename2frame
  /\ cmp' = [cmp EXCEPT !.stage = "dir"]
  /\ UNCHANGED <<optVars, cfgVars, csVars, camVars, lm_map, refVars,
                 sim_transform, outVars, log, pc, exit_code, failure, trip>>

\* Lines 249-252 and 290-301: the directory's files, sorted, matched.
CmpLoadDir ==
  /\ cmp.stage = "dir"
  /\ cmp' = [cmp EXCEPT
               !.stage = "list",
               !.dir_cams = MatchCameras(files_in_dir(KrtdDir, cmp.entries),
                                         filename2frame, EmptyMap)]
  /\ UNCHANGED <<optVars, cfgVars, idxVars, csVars, camVars, lm_map, refVars,
                 sim_transform, outVars, log, pc, exit_code, failure, trip>>

\* Lines 255-263 and 290-301: the list file's lines, in file order, matched.
CmpLoadList ==
  /\ cmp.stage = "list"
  /\ cmp' = [cmp EXCEPT
               !.stage = "done",
               !.list_cams = MatchCameras(cmp.lines, filename2frame, EmptyMap)]
  /\ UNCHANGED <<optVars, cfgVars, idxVars, csVars, camVars, lm_map, refVars,
                 sim_transform, outVars, log, pc, exit_code, failure, trip>>

CmpNext ==
  \/ CmpBuildIndex
  \/ CmpLoadDir
  \/ CmpLoadList

LoaderSpec == CmpInit /\ [][CmpNext]_vars

\* ------------------------------------------- the origin file across runs
\* Angles are in hundredths of a degree and UTM lengths in the arc of one
\* such unit, so that a zone is 600 wide, the false easting (500 km) is 450
\* and the false northing of the southern hemisphere (10000 km) is 9000.

\* the central meridian of a UTM zone
ZoneCentre(zone) == (zone - 1) * 600 - 18000 + 300

\* Line 477: geo_map::latlon_to_utm.  The zone comes from the longitude, the
\* hemisphere from the sign of the latitude; a southern northing is counted
\* from the false northing.
latlon_to_utm(lat, lon) ==
  LET zone == (((lon + 18000) \div 600) % 60) + 1
  IN  [x |-> 450 + (lon - ZoneCentre(zone)),
       y |-> IF lat >= 0 THEN lat ELSE 9000 + lat,
       zone |-> zone,
       is_north_hemi |-> lat >= 0]

\* Line 540: geo_map::utm_to_latlon, the inverse for the hemisphere it is
\* told.
utm_to_latlon(easting, northing, zone, north_hemi) ==
  [lat |-> IF north_hemi THEN northing ELSE northing - 9000,
   lon |-> ZoneCentre(zone) + (easting - 450)]

\* Line 548: a value as text under std::setprecision(12), which keeps fewer
\* digits than the double holds: here the last digit is rounded away.
Written(v) ==
  LET r == v % 10
  IN  IF 2 * r >= 10 THEN v - r + 10 ELSE v - r

\* geodetic positions (lat, lon, alt) of geo-referenced input, in both
\* hemispheres
GeoLats == {0 - 3307, 0 - 12, 8, 4711}
GeoLons == {0 - 8253, 0 - 7791, 312, 15108}
GeoAlts == {0, 137, 1524}

\* Lines 519-532: a run that resolved a new origin from geo-referenced input
\* holds its zone and its UTM origin in local_cs; the hemisphere is the one
\* latlon_to_utm reported for it.
TripInit ==
  /\ opt_help = FALSE
  /\ opt_out_config = FALSE
  /\ config = NoConfig
  /\ valid_config = FALSE
  /\ st_estimator = FALSE
  /\ can_tfm_estimator = FALSE
  /\ image_files = <<>>
  /\ frame2filename = <<>>
  /\ filename2frame = EmptyMap
  /\ local_cs = [utm_origin_zone |-> 0 - 1]
  /\ geo_origin_loaded_from_file = FALSE
  /\ krtd_files = <<>>
  /\ input_cameras = EmptyMap
  /\ cam_map = NullCams
  /\ lm_map = NullLm
  /\ reference_landmarks = 0
  /\ reference_tracks = 0
  /\ sim_transform = "identity"
  /\ out_ply = [written |-> FALSE, lm |-> NullLm]
  /\ out_pos = [written |-> FALSE, cam |-> NullCams, names |-> {}]
  /\ out_krtd = [written |-> FALSE, cam |-> NullCams, names |-> {}]
  /\ log = <<>>
  /\ pc = "trip"
  /\ exit_code = NoExit
  /\ failure = ""
  /\ cmp = NoCmp
  /\ \E lat \in GeoLats, lon \in GeoLons, alt \in GeoAlts :
       LET u == latlon_to_utm(lat, lon)
       IN  trip = [stage |-> "resolved",
                   geo |-> <<lat, lon, alt>>,
                   held |-> [utm_origin_zone |-> u.zone,
                             utm_origin |-> <<u.x, u.y, alt>>,
                             is_north_hemi |-> u.is_north_hemi],
                   file |-> <<>>,
                   loaded |-> NoCs]

\* Lines 534-550 in the run that resolved the origin: the origin goes back
\* to lat/lon as a northern-hemisphere point (line 540 passes true) and is
\* written as "lat lon alt" when the file can be opened.
TripPersist ==
  /\ trip.stage = "resolved"
  /\ \E opened \in BOOLEAN :
       LET easting == trip.held.utm_origin[1]
           northing == trip.held.utm_origin[2]
           altitude == trip.held.utm_origin[3]
           zone == trip.held.utm_origin_zone
           ll == utm_to_latlon(easting, northing, zone, TRUE)
       IN  IF opened
           THEN trip' = [trip EXCEPT
                           !.stage = "persisted",
                           !.file = <<Written(ll.lat), Written(ll.lon),
                                      Written(altitude)>>]
           ELSE trip' = [trip EXCEPT !.stage = "unwritten"]
  /\ UNCHANGED <<optVars, cfgVars, idxVars, csVars, camVars, lm_map, refVars,
                 sim_transform, outVars, log, pc, exit_code, failure, cmp>>

\* Lines 469-480 in a later run: the file is read and converted to UTM.
TripLoad ==
  /\ trip.stage = "persisted"
  /\ LET lat == trip.file[1]
         lon == trip.file[2]
         alt == trip.file[3]
         u == latlon_to_utm(lat, lon)
     IN  trip' = [trip EXCEPT
                    !.stage = "loaded",
                    !.loaded = [utm_origin_zone |-> u.zone,
                                utm_origin |-> <<u.x, u.y, alt>>,
                                is_north_hemi |-> u.is_north_hemi]]
  /\ UNCHANGED <<optVars, cfgVars, idxVars, csVars, camVars, lm_map, refVars,
                 sim_transform, outVars, log, pc, exit_code, failure, cmp>>

TripNext ==
  \/ TripPersist
  \/ TripLoad

RoundTripSpec == TripInit /\ [][TripNext]_vars

Next ==
  \/ ParseArgs
  \/ Configure
  \/ ReadImageList
  \/ LoadOrigin
  \/ LoadCameras
  \/ LoadLandmarks
  \/ CopyCameras
  \/ LoadReference
  \/ PersistOrigin
  \/ ResolveTransform
  \/ ApplyTransform
  \/ WritePly
  \/ WritePos
  \/ WriteKrtd

Spec == Init /\ [][Next]_vars

\* ================================================================ claims
Calls(e) == Count(log, e)
Logged(e) == e \in Range(log)
LastLog == IF log = <<>> THEN "" ELSE log[Len(log)]
Stem(p) == GetFilenameWithoutLastExtension(p)

\* non-empty reference landmarks and non-empty reference tracks
HasReferenceData == reference_landmarks > 0 /\ reference_tracks > 0

\* check_config has run
ConfigChecked == Logged("check_config")

\* the frame index has been built
IndexBuilt == Logged("read_image_list")

\* the origin stage (lines 461-482) is behind
OriginStagePassed == IndexBuilt /\ pc # "origin"

\* the persist stage (lines 530-555) ended without throwing
PersistFinished ==
  \/ pc \in {"resolve", "apply", "write_ply", "write_pos", "write_krtd"}
  \/ /\ pc = "done"
     /\ \/ Logged("triangulate") \/ Logged("can_estimate")
        \/ Logged("transform_cameras") \/ Logged("write_ply")

\* transform resolution (lines 568-610) ended without throwing or crashing
ResolutionFinished ==
  \/ pc \in {"apply", "write_ply", "write_pos", "write_krtd"}
  \/ pc = "done" /\ (Logged("transform_cameras") \/ Logged("write_ply"))

\* the whole pipeline ran and main returned EXIT_SUCCESS
Completed == pc = "done" /\ exit_code = EXIT_SUCCESS /\ Logged("write_krtd")

\* C1: with non-empty reference data the canonical estimator is never
\* invoked and, once resolution has finished with a canonical estimator
\* configured, the reference path (triangulate, similarity estimate) was the
\* one taken; with only a canonical estimator and no reference data the
\* canonical estimator was invoked exactly once; with neither reference data
\* nor a canonical estimator no estimator is invoked.
C1_Priority ==
  /\ Calls("can_estimate") <= 1
  /\ (HasReferenceData => Calls("can_estimate") = 0)
  /\ (ResolutionFinished /\ HasReferenceData /\ can_tfm_estimator
        => Calls("triangulate") = 1 /\ Calls("st_estimate") = 1)
  /\ (ResolutionFinished /\ ~HasReferenceData
        /\ can_tfm_estimator /\ ~st_estimator
        => /\ Calls("can_estimate") = 1
           /\ Calls("triangulate") = 0
           /\ Calls("st_estimate") = 0
           /\ sim_transform = "canonical")
  /\ (~HasReferenceData /\ ~can_tfm_estimator
        => /\ Calls("can_estimate") = 0
           /\ Calls("triangulate") = 0
           /\ Calls("st_estimate") = 0
           /\ sim_transform = "identity")

\* a completed run with reference data and both estimators configured
C1_Witness ==
  /\ Completed
  /\ HasReferenceData /\ can_tfm_estimator /\ st_estimator
  /\ Calls("st_estimate") = 1
  /\ sim_transform = "similarity"

\* C2 as stated: whatever estimators are configured, a run with non-empty
\* reference data that gets through transform resolution has triangulated
\* and has estimated the similarity transform.
C2_Original ==
  ResolutionFinished /\ HasReferenceData
    => Calls("triangulate") = 1 /\ Calls("st_estimate") = 1

\* C2 amended: with non-empty reference data, the reference path is taken
\* when at least one estimator is configured (with a similarity estimator it
\* yields the similarity transform, whether or not a canonical estimator is
\* configured; with only a canonical estimator triangulation runs, the
\* canonical estimator is not invoked and the transform is indeterminate);
\* with no estimator configured nothing is triangulated or estimated.
C2_Amended ==
  ResolutionFinished /\ HasReferenceData
    => /\ (st_estimator
             => /\ Calls("triangulate") = 1
                /\ Calls("st_estimate") = 1
                /\ Calls("can_estimate") = 0
                /\ sim_transform = "similarity")
       /\ (~st_estimator /\ can_tfm_estimator
             => /\ Calls("triangulate") = 1
                /\ Calls("can_estimate") = 0
                /\ sim_transform = "indeterminate")
       /\ (~st_estimator /\ ~can_tfm_estimator
             => /\ Calls("triangulate") = 0
                /\ Calls("st_estimate") = 0
                /\ Calls("can_estimate") = 0
                /\ sim_transform = "identity")

\* resolution finished on the reference path with only a similarity estimator
C2_Witness ==
  /\ ResolutionFinished /\ HasReferenceData
  /\ st_estimator /\ ~can_tfm_estimator
  /\ Calls("triangulate") = 1
  /\ sim_transform = "similarity"

\* a valid configuration with no reference points file, input_krtd_files
\* left blank and no canonical estimator, past the image list
ScenarioC ==
  /\ IndexBuilt
  /\ config.input_reference_points_file = "blank"
  /\ config.input_krtd_files = "blank"
  /\ ~can_tfm_estimator

\* C3: a Scenario C run in which no collaborator throws ends with
\* EXIT_SUCCESS, and the landmark and camera maps it wrote are the loaded
\* ones, untransformed or transformed by the identity only.
C3_ScenarioC ==
  ScenarioC /\ pc = "done" /\ failure # "exception"
    => /\ exit_code = EXIT_SUCCESS
       /\ out_ply.written /\ Range(out_ply.lm.xf) \subseteq {"identity"}
       /\ out_krtd.written /\ Range(out_krtd.cam.xf) \subseteq {"identity"}
       /\ out_krtd.cam.cams = input_cameras

\* C4 as stated: no write when the origin was loaded, exactly one write when
\* the file did not exist and the zone is resolved after the reference data.
C4_Original ==
  /\ (geo_origin_loaded_from_file => Calls("write_origin") = 0)
  /\ (PersistFinished /\ config.geo_origin_file = "absent"
        /\ local_cs.utm_origin_zone >= 0
        => Calls("write_origin") = 1)

\* C4 amended: the origin file is written at most once; never when it was
\* loaded; when it did not exist and the zone is resolved, exactly once if
\* the file could be opened for writing and not at all if the open failed.
C4_Amended ==
  /\ Calls("write_origin") <= 1
  /\ (Logged("load_origin") => Calls("write_origin") = 0)
  /\ (geo_origin_loaded_from_file => Calls("write_origin") = 0)
  /\ (PersistFinished /\ config.geo_origin_file = "absent"
        /\ local_cs.utm_origin_zone >= 0
        => IF Logged("open_origin_failed")
           THEN Calls("write_origin") = 0
           ELSE Calls("write_origin") = 1)

\* the file was absent, reference data resolved a zone, the origin was written
C4_Witness ==
  /\ PersistFinished
  /\ config.geo_origin_file = "absent"
  /\ local_cs.utm_origin_zone >= 0
  /\ ~Logged("open_origin_failed")
  /\ Calls("write_origin") = 1

\* C5 as stated: past the persist stage of a run with a geo-origin path
\* exactly one of load and persist has executed, and it is load exactly when
\* the file existed and was parseable.
C5_Original ==
  PersistFinished /\ config.geo_origin_file # "blank"
    => /\ Calls("load_origin") + Calls("write_origin") = 1
       /\ (Calls("load_origin") = 1 <=> config.geo_origin_file = "present")

\* C5 amended: load and persist never both execute; load executes exactly
\* when the file exists at the start (parseable or not); persist executes
\* only when the file did not exist and a zone was resolved; when the file
\* does not exist and no zone is resolved neither executes.
C5_Amended ==
  /\ Calls("load_origin") + Calls("write_origin") <= 1
  /\ (OriginStagePassed
        => (Calls("load_origin") = 1
              <=> config.geo_origin_file \in {"present", "garbage"}))
  /\ (Calls("write_origin") = 1
        => /\ config.geo_origin_file = "absent"
           /\ local_cs.utm_origin_zone >= 0
           /\ ~geo_origin_loaded_from_file)
  /\ (PersistFinished /\ local_cs.utm_origin_zone < 0
        => Calls("load_origin") = 0 /\ Calls("write_origin") = 0)

\* a completed run that neither loaded nor persisted an origin
C5_Witness ==
  /\ Completed
  /\ config.geo_origin_file = "absent"
  /\ local_cs.utm_origin_zone < 0
  /\ Calls("load_origin") = 0
  /\ Calls("write_origin") = 0

\* the stems of an image list, in list order
Stems(files) == [i \in DOMAIN files |-> Stem(files[i])]
DistinctSeq(q) == \A i, j \in DOMAIN q : q[i] = q[j] => i = j
FrameIds == { filename2frame[s] : s \in DOMAIN filename2frame }

\* C6 as stated: for an N-entry list filename2frame has N entries, its ids
\* are 0..N-1 and frame2filename[filename2frame[s]] = s.
C6_Original ==
  IndexBuilt
    => /\ Cardinality(DOMAIN filename2frame) = Len(image_files)
       /\ FrameIds = 0 .. (Len(image_files) - 1)
       /\ \A s \in DOMAIN filename2frame :
            FrameName(frame2filename, filename2frame[s]) = s

\* C6 amended: frame2filename holds the N stems in list order (ids 0..N-1);
\* filename2frame has one entry per distinct stem, mapping it to the id of
\* its last occurrence, so frame2filename[filename2frame[s]] = s always, and
\* filename2frame has N entries with ids exactly 0..N-1 exactly when the
\* stems are pairwise distinct.
C6_Amended ==
  IndexBuilt
    => LET st == Stems(image_files)
           N  == Len(image_files)
       IN  /\ frame2filename = st
           /\ DOMAIN filename2frame = Range(st)
           /\ \A s \in DOMAIN filename2frame :
                /\ filename2frame[s] \in 0 .. (N - 1)
                /\ FrameName(frame2filename, filename2frame[s]) = s
                /\ \A i \in 1..N : st[i] = s => i - 1 <= filename2frame[s]
           /\ (Cardinality(DOMAIN filename2frame) = N <=> DistinctSeq(st))
           /\ (FrameIds = 0 .. (N - 1) <=> DistinctSeq(st))

\* two different image files with the same stem were indexed
C6_Witness ==
  /\ IndexBuilt
  /\ Len(image_files) = 2
  /\ image_files[1] # image_files[2]
  /\ Cardinality(DOMAIN filename2frame) = 1

DistinctStems(E) == \A a, b \in E : Stem(a) = Stem(b) => a = b

\* C7 as stated: directory mode and list mode (any line order) of the same
\* files give identical camera maps.
C7_Original ==
  cmp.stage = "done" => cmp.dir_cams = cmp.list_cams

\* C7 amended: the two modes always give the same FrameId keys, and give
\* identical camera maps when no two of the files share a stem.
C7_Amended ==
  cmp.stage = "done"
    => /\ DOMAIN cmp.dir_cams = DOMAIN cmp.list_cams
       /\ (DistinctStems(cmp.entries) => cmp.dir_cams = cmp.list_cams)

\* two files of distinct stems, both matched, listed in descending order
C7_Witness ==
  /\ cmp.stage = "done"
  /\ Cardinality(cmp.entries) = 2
  /\ DistinctStems(cmp.entries)
  /\ StrLess(cmp.lines[2], cmp.lines[1])
  /\ Cardinality(DOMAIN cmp.dir_cams) = 2
  /\ cmp.dir_cams = cmp.list_cams

\* load_input_cameras_krtd has just returned or thrown
JustLoaded == LastLog \in {"load_cameras", "warn_sparse"}

\* frame ids of the candidates whose stem is in filename2frame
MatchedIds ==
  { filename2frame[Stem(f)] :
      f \in { g \in Range(krtd_files) : Stem(g) \in DOMAIN filename2frame } }

\* the path is neither a directory nor an openable list file
ListUnopenable == config.input_krtd_files \notin {"dir", "list"}

\* C8 as stated: the load fails exactly when the list cannot be opened or
\* nothing matched; otherwise it succeeds with the matched ids as keys and
\* warns exactly when the map is smaller than the frame index.
C8_Original ==
  JustLoaded
    => /\ (pc = "done" <=> ListUnopenable \/ MatchedIds = {})
       /\ (pc # "done"
             => /\ DOMAIN input_cameras = MatchedIds
                /\ (LastLog = "warn_sparse"
                      <=> Cardinality(DOMAIN input_cameras)
                            < Cardinality(DOMAIN filename2frame)))

\* C8 amended: the load returns failure exactly when the list cannot be
\* opened or nothing matched; it ends by an exception only when some
\* candidate matched (reading a matched file threw); otherwise it succeeds
\* with a map whose keys are exactly the matched frame ids, each bound to a
\* candidate file of that frame, unmatched candidates discarded, and warns
\* exactly when the map has fewer entries than filename2frame.
C8_Amended ==
  JustLoaded
    => /\ (failure = "krtd_list" <=> ListUnopenable)
       /\ (failure = "no_cameras" <=> ~ListUnopenable /\ MatchedIds = {})
       /\ (failure = "exception" => ~ListUnopenable /\ MatchedIds # {})
       /\ (pc = "done" <=> failure # "")
       /\ (pc # "done"
             => /\ pc = "landmarks"
                /\ ~ListUnopenable
                /\ DOMAIN input_cameras = MatchedIds
                /\ \A k \in DOMAIN input_cameras :
                     /\ input_cameras[k] \in Range(krtd_files)
                     /\ filename2frame[Stem(input_cameras[k])] = k
                /\ (LastLog = "warn_sparse"
                      <=> Cardinality(DOMAIN input_cameras)
                            < Cardinality(DOMAIN filename2frame)))

\* two frames, one matching file and one discarded file: success, one
\* entry, warning
C8_Witness ==
  /\ JustLoaded /\ pc = "landmarks"
  /\ LastLog = "warn_sparse"
  /\ Cardinality(DOMAIN filename2frame) = 2
  /\ Cardinality(DOMAIN input_cameras) = 1
  /\ \E f \in Range(krtd_files) : Stem(f) \notin DOMAIN filename2frame

\* C9 as stated: the exit code is 1 on any failure, an invalid configuration
\* included, and 0 only on success.
C9_Original ==
  pc = "done"
    => /\ (ConfigChecked /\ ~valid_config => exit_code = EXIT_FAILURE)
       /\ (failure # "" => exit_code = EXIT_FAILURE)
       /\ (exit_code = EXIT_SUCCESS => failure = "")

\* C9 amended: every failure the program detects (unparsable arguments,
\* invalid configuration without -o, unopenable image or camera list, no
\* matched camera, any exception) exits with 1; with -o/--output-config the
\* configuration is dumped and the exit code is 0 whether or not it is
\* valid; the exit code is 0 only after --help, after a configuration dump
\* or after the whole pipeline ran; a run killed inside the call through a
\* null similarity estimator returns neither.
C9_Amended ==
  pc = "done"
    => /\ (failure \in {"args", "config", "image_list", "krtd_list",
                        "no_cameras", "exception"}
             => exit_code = EXIT_FAILURE)
       /\ (ConfigChecked /\ ~valid_config /\ ~opt_out_config
             => exit_code = EXIT_FAILURE /\ failure = "config")
       /\ (ConfigChecked /\ opt_out_config /\ failure = ""
             => exit_code = EXIT_SUCCESS /\ ~IndexBuilt)
       /\ (exit_code = EXIT_SUCCESS
             => /\ failure = ""
                /\ \/ opt_help /\ ~ConfigChecked
                   \/ opt_out_config /\ Logged("write_config")
                   \/ Logged("write_krtd") /\ out_krtd.written)
       /\ (exit_code \notin {EXIT_SUCCESS, EXIT_FAILURE}
             => failure = "crash" /\ ~st_estimator /\ HasReferenceData)

\* an invalid configuration dumped with -o: exit code 0
C9_Witness ==
  /\ pc = "done"
  /\ opt_out_config /\ ConfigChecked /\ ~valid_config
  /\ exit_code = EXIT_SUCCESS

\* C10: with neither estimator configured there is no triangulation, no
\* estimator call and no transform call, and the landmark and camera maps
\* handed to the writers are exactly the loaded ones.
C10_IdentityPath ==
  ~st_estimator /\ ~can_tfm_estimator
    => /\ Calls("triangulate") = 0
       /\ Calls("st_estimate") = 0
       /\ Calls("can_estimate") = 0
       /\ Calls("transform_cameras") = 0
       /\ Calls("transform_landmarks") = 0
       /\ (out_ply.written
             => out_ply.lm = [null |-> FALSE, src |-> "input_ply", xf |-> <<>>])
       /\ (out_pos.written
             => out_pos.cam = [null |-> FALSE, cams |-> input_cameras,
                               xf |-> <<>>])
       /\ (out_krtd.written
             => out_krtd.cam = [null |-> FALSE, cams |-> input_cameras,
                                xf |-> <<>>])

\* a completed run with reference data and no estimator configured
C10_Witness ==
  /\ Completed
  /\ ConfigChecked /\ ~st_estimator /\ ~can_tfm_estimator
  /\ HasReferenceData
  /\ out_ply.written /\ out_krtd.written

\* the transforms applied to the landmarks of the written landmark file
WrittenLandmarkTransforms == out_ply.lm.xf

\* the transforms applied to the cameras of the written camera files, POS
\* and KRTD (a writer that threw may have left some of the files behind)
WrittenCameraTransforms ==
  (IF out_pos.names # {} THEN {out_pos.cam.xf} ELSE {}) \cup
  (IF out_krtd.names # {} THEN {out_krtd.cam.xf} ELSE {})

\* C11: whatever camera files and landmark file are written, the written
\* cameras and the written landmarks carry the same transforms, namely none
\* or the resolved similarity transform once; camera files are written only
\* after the landmark file, so transformed cameras never go out beside
\* untransformed landmarks or the reverse, also when a collaborator fails
\* between the two transform calls or in a writer.
C11_Paired ==
  /\ (out_ply.written
        => /\ WrittenLandmarkTransforms \in {<<>>, <<sim_transform>>}
           /\ cam_map.xf = WrittenLandmarkTransforms
           /\ lm_map.xf = WrittenLandmarkTransforms)
  /\ (WrittenCameraTransforms # {}
        => /\ out_ply.written
           /\ WrittenCameraTransforms = {WrittenLandmarkTransforms})
  /\ (~out_ply.written => out_pos.names = {} /\ out_krtd.names = {})

\* a completed run that wrote cameras and landmarks, both transformed once by
\* the estimated similarity transform
C11_Witness ==
  /\ Completed
  /\ sim_transform = "similarity"
  /\ out_ply.written /\ out_pos.written /\ out_krtd.written
  /\ WrittenLandmarkTransforms = <<"similarity">>
  /\ WrittenCameraTransforms = {<<"similarity">>}

\* the place of a logged call in the pipeline: load (image list, origin
\* file, cameras, landmarks, reference data), origin persist, transform
\* resolution, transform application, output writing
StepRank(e) ==
  CASE e \in {"read_config", "check_config"} -> 0
    [] e = "write_config" -> 1
    [] e = "read_image_list" -> 2
    [] e = "load_origin" -> 3
    [] e = "load_cameras" -> 4
    [] e = "warn_sparse" -> 5
    [] e = "read_ply" -> 6
    [] e = "load_reference" -> 7
    [] e = "utm_to_latlon" -> 8
    [] e \in {"write_origin", "open_origin_failed"} -> 9
    [] e = "triangulate" -> 10
    [] e = "rmse" -> 11
    [] e \in {"st_estimate", "can_estimate"} -> 12
    [] e = "transform_cameras" -> 13
    [] e = "transform_landmarks" -> 14
    [] e = "write_ply" -> 15
    [] e = "write_pos" -> 16
    [] e = "write_krtd" -> 17

\* the calls made so far came in pipeline order, none of them twice
InPipelineOrder ==
  \A i, j \in 1..Len(log) : i < j => StepRank(log[i]) < StepRank(log[j])

\* C12: the steps of a run occur in the order load (image list, origin
\* file, cameras, landmarks, reference data), origin persist, transform
\* resolution, transform application, output writing, each at most once;
\* a failure ends the run, after which no step is taken; and an output file
\* is written only after the loads succeeded and, when an estimator is
\* configured, after resolution ran to its end and both maps were
\* transformed, each writer only after the one before it succeeded.
C12_SinglePass ==
  /\ InPipelineOrder
  /\ (failure # "" \/ exit_code # NoExit => pc = "done")
  /\ (pc = "done" => ~ENABLED Next)
  /\ (Logged("transform_cameras")
        => /\ Logged("triangulate") => Logged("rmse") /\ Logged("st_estimate")
           /\ ~(Logged("st_estimate") /\ Logged("can_estimate")))
  /\ (Logged("write_ply")
        => /\ Logged("read_image_list") /\ Logged("load_cameras")
           /\ Logged("read_ply")
           /\ (config.input_reference_points_file # "blank"
                 => Logged("load_reference"))
           /\ (st_estimator \/ can_tfm_estimator
                 => /\ Logged("transform_cameras")
                    /\ Logged("transform_landmarks")
                    /\ cam_map.xf = <<sim_transform>>
                    /\ lm_map.xf = <<sim_transform>>)
           /\ (Logged("triangulate") \/ Logged("can_estimate")
                 => Logged("transform_landmarks")))
  /\ (Logged("write_pos") => out_ply.written)
  /\ (Logged("write_krtd")
        => out_pos.written /\ out_pos.names = OutputNames(cam_map))

\* a completed run that took every step: image list, cameras, landmarks and
\* reference data loaded, the new origin persisted, the similarity transform
\* estimated and applied, the three outputs written
C12_Witness ==
  /\ Completed
  /\ Logged("load_reference") /\ Logged("write_origin")
  /\ Logged("triangulate") /\ Logged("st_estimate")
  /\ Logged("transform_cameras") /\ Logged("transform_landmarks")
  /\ out_ply.written /\ out_pos.written /\ out_krtd.written

\* two values that agree to the precision the origin file is written with
Near(a, b) == a - b <= 5 /\ b - a <= 5

\* C13: when a run persists a newly resolved origin and a later run loads
\* the file, the later run gets the zone, the hemisphere and (to the
\* precision of the file) the easting, northing and altitude the first run
\* held, for origins in the northern and in the southern hemisphere.
C13_RoundTrip ==
  trip.stage = "loaded"
    => /\ trip.loaded.utm_origin_zone = trip.held.utm_origin_zone
       /\ trip.loaded.is_north_hemi = trip.held.is_north_hemi
       /\ \A i \in 1..3 :
            Near(trip.loaded.utm_origin[i], trip.held.utm_origin[i])

\* the round trip of a northern origin
C13_NorthernRoundTrip ==
  trip.stage = "loaded" /\ trip.held.is_north_hemi
    => /\ trip.loaded = [trip.held EXCEPT !.utm_origin = trip.loaded.utm_origin]
       /\ \A i \in 1..3 :
            Near(trip.loaded.utm_origin[i], trip.held.utm_origin[i])

\* the file written for a southern origin names a northern latitude
C13_SouthernFile ==
  trip.stage = "persisted" /\ ~trip.held.is_north_hemi
    => trip.file[1] > 0 /\ ~Near(trip.file[1], trip.geo[1])

\* C14: in a run that passed check_config, whenever the similarity
\* estimator's estimate_transform has been invoked the similarity estimator
\* is configured, and whenever the canonical estimator's estimate_transform
\* has been invoked the canonical estimator is configured.
C14_EstimatorAvailable ==
  ConfigChecked /\ valid_config
    => /\ (Logged("st_estimate") => st_estimator)
       /\ (Logged("can_estimate") => can_tfm_estimator)

\* the canonical estimator is never invoked unconfigured
C14_CanonicalAvailable ==
  ConfigChecked /\ valid_config
    => (Logged("can_estimate") => can_tfm_estimator)

\* the run has reached transform resolution or output writing
AtResolutionOrWriting ==
  \/ pc \in {"resolve", "apply", "write_ply", "write_pos", "write_krtd"}
  \/ Logged("triangulate") \/ Logged("can_estimate")
  \/ Logged("transform_cameras") \/ Logged("write_ply")

\* C15: whenever the run has reached transform resolution or output
\* writing, the working camera map exists and is non-empty and every key of
\* it is a frame id in 0..|frame2filename|-1, so that each output file name
\* frame2filename[key] is an entry of the frame index.
C15_CameraMapValid ==
  AtResolutionOrWriting
    => /\ ~cam_map.null
       /\ DOMAIN cam_map.cams # {}
       /\ \A k \in DOMAIN cam_map.cams :
            /\ k \in 0..(Len(frame2filename) - 1)
            /\ FrameName(frame2filename, k) \in Range(frame2filename)
       /\ out_pos.names \cup out_krtd.names \subseteq Range(frame2filename)

\* a completed run over two images, a camera matched to the second of them
\* only, its POS and KRTD files written under that image's stem
C15_Witness ==
  /\ Completed
  /\ Len(frame2filename) = 2
  /\ DOMAIN cam_map.cams = {1}
  /\ out_pos.names = {frame2filename[2]}
  /\ out_krtd.names = {frame2filename[2]}

====
